---------------------------- MODULE Spec2Model ----------------------------
(***************************************************************************)
(* A model of pyhvtoolce7.py: the bounds-checked byte reader (Unpacker),   *)
(* the hive file decoder (parse_hivefile) and the registry tree flattener  *)
(* (make_reg_flatmap).                                                     *)
(*                                                                         *)
(* Representation.                                                         *)
(*  - A bytes object is a record [len, at]: its length and its non-zero    *)
(*    bytes by offset; every offset below len that is not in DOMAIN at     *)
(*    holds the byte 0.  The value of every byte is kept.                  *)
(*  - A str is the sequence of its code points, so  a + "/" + b  is        *)
(*    a \o <<47>> \o b.                                                    *)
(*  - A dict is a function; where the code iterates over a dict, the       *)
(*    insertion order is kept beside it as a sequence of keys.             *)
(*  - A raised exception is a record [exc, msg, val]: the exception class, *)
(*    its first argument ("" when there is none) and its integer argument  *)
(*    (-1 when there is none).  NoErr stands for "nothing raised".         *)
(***************************************************************************)
EXTENDS Integers, Sequences, FiniteSets, TLC

VARIABLES
    p,            \* the Unpacker over the input: [data, index]
    last,         \* the last Unpacker call and its outcome (SpecUnpacker)
    pc,           \* the position of parse_hivefile
    err,          \* the exception that ended the run, NoErr if none
    section_list, \* parse_hivefile: section_list
    sec_i,        \* index of the next section of section_list to decode
    section_entry_list, \* the 0x400 entry headers of the current section
    hdr_i,        \* index of the next entry header to look at
    hdr_log,      \* what the last entry header looked at was and did
    entry_dict,   \* parse_hivefile: entry_dict (res_dict in make_reg_flatmap)
    entry_order,  \* insertion order of entry_dict's keys
    root_slots,   \* the 8 id slots read for each ET_ROOTS entry (history)
    top_i,        \* index in entry_order of the top-level loop
    flatreg,      \* parse_hivefile: flatreg
    stack,        \* the call stack of make_reg_flatmap, innermost frame last
    ret,          \* the value the last make_reg_flatmap call returned
    max_depth,    \* the deepest the stack has been (history)
    vinput,       \* SpecValue: the (value_type, raw_value) being decoded
    vresult       \* SpecValue: what decoding it gave

vars == <<p, last, pc, err, section_list, sec_i, section_entry_list, hdr_i,
          hdr_log, entry_dict, entry_order, root_slots, top_i, flatreg,
          stack, ret, max_depth, vinput, vresult>>

-----------------------------------------------------------------------------
(* Bounds of the model. *)

\* SpecUnpacker: the longest buffer the Unpacker is tried on.
MaxData == 5

\* SpecValue: the longest string of a string list, the longest string list,
\* and the longest payload (in 16-bit units) that is not made from a list.
MaxStr == 1
MaxList == 2
MaxUnits == 3

\* The flattener: the deepest the calls of make_reg_flatmap may nest before
\* the interpreter raises RecursionError (sys.getrecursionlimit(), scaled to
\* the tables of the model).
RecursionLimit == 7

\* SpecFlatten and SpecTerm: the entry ids of the tables are 1..MaxEntries.
MaxEntries == 3

-----------------------------------------------------------------------------
(* Exceptions. *)

NoErr == [exc |-> "", msg |-> "", val |-> -1]

Raise(exc, msg, val) == [exc |-> exc, msg |-> msg, val |-> val]

IndexError == Raise("IndexError", "out of bounds", -1)

-----------------------------------------------------------------------------
(* bytes objects. *)

EmptyBytes == [len |-> 0, at |-> [k \in {} |-> 0]]

\* b[i]
ByteAt(b, i) == IF i \in DOMAIN b.at THEN b.at[i] ELSE 0

\* b[i : i + n], for 0 <= i and i + n <= len(b)
Slice(b, i, n) ==
    LET offs == {o \in DOMAIN b.at : i <= o /\ o < i + n}
    IN  [len |-> n, at |-> [k \in {o - i : o \in offs} |-> b.at[k + i]]]

\* The bytes object of a dense sequence of byte values.
BytesOf(s) ==
    [len |-> Len(s),
     at  |-> [k \in {j \in 0..(Len(s) - 1) : s[j + 1] # 0} |-> s[k + 1]]]

\* int.from_bytes(b, 'little').  The integers of the model checker are 32
\* bits wide and signed, so an integer read from the file is held as the
\* two's-complement integer with the same 32 bits: a value v below 2^31 as
\* v, a value v from 2^31 to 2^32 - 1 as v - 2^32.  Equal values have equal
\* representations and the low bits are v % 2^k as they stand.  A bytes
\* object with a non-zero byte beyond the fourth has no representation: no
\* input of the model holds one where the code takes its integer value.
Signed8(x) == IF x >= 128 THEN x - 256 ELSE x

int_from_bytes_little(b) ==
    CASE \A o \in DOMAIN b.at : o < 4 ->
        ByteAt(b, 0) + 256 * ByteAt(b, 1) + 65536 * ByteAt(b, 2)
        + 16777216 * Signed8(ByteAt(b, 3))

-----------------------------------------------------------------------------
(* class Unpacker.  Every method takes the Unpacker u = [data, index] and    *)
(* gives [err, u, val]: the exception raised (NoErr if none), the Unpacker  *)
(* afterwards and the value returned.                                       *)

Unpacker(data) == [data |-> data, index |-> 0]

Result(e, u, v) == [err |-> e, u |-> u, val |-> v]

\* seek without the check of line 33
seek_unchecked(u, new_index) ==
    Result(NoErr, [u EXCEPT !.index = new_index], 0)

seek(u, new_index) ==
    IF new_index \notin 0..u.data.len
    THEN Result(IndexError, u, 0)
    ELSE Result(NoErr, [u EXCEPT !.index = new_index], 0)

remaining_len(u) == u.data.len - u.index

read_n(u, n) ==
    IF n > remaining_len(u)
    THEN Result(IndexError, u, EmptyBytes)
    ELSE Result(NoErr, [u EXCEPT !.index = u.index + n],
                Slice(u.data, u.index, n))

read_int(u, num_bytes) ==
    LET r == read_n(u, num_bytes)
    IN  IF r.err # NoErr THEN Result(r.err, r.u, 0)
        ELSE Result(NoErr, r.u, int_from_bytes_little(r.val))

read_u8(u) ==
    LET r == read_n(u, 1)
    IN  IF r.err # NoErr THEN Result(r.err, r.u, 0)
        ELSE Result(NoErr, r.u, ByteAt(r.val, 0))

read_u16le(u) == read_int(u, 2)

read_u32le(u) == read_int(u, 4)

-----------------------------------------------------------------------------
(* Constants of the program. *)

ET_DATABASE == 7
ET_RECORD == 8
ET_RECMORE == 9
ET_VOLUME == 10
ET_ROOTS == 11
ET_KEY == 12
ET_VALUE == 13
ET_INDEX == 14

\* ENTRY_TYPE_NAME_FROM_NUMBER.keys()
EntryTypeNumbers ==
    {ET_DATABASE, ET_RECORD, ET_RECMORE, ET_VOLUME, ET_ROOTS, ET_KEY,
     ET_VALUE, ET_INDEX}

VALUE_TYPE_STRING == 1
VALUE_TYPE_BINARY == 3
VALUE_TYPE_DWORD == 4
VALUE_TYPE_STRINGLIST == 7
VALUE_TYPE_MUI == 21

\* ROOT_NAME_FROM_INDEX = ["HKCR", "HKCU", "HKLM", "HKU"], as code points
ROOT_NAME_FROM_INDEX ==
    << <<72, 75, 67, 82>>, <<72, 75, 67, 85>>, <<72, 75, 76, 77>>, <<72, 75, 85>> >>

\* "/"
Slash == <<47>>

-----------------------------------------------------------------------------
(* str and bytes helpers of the Python runtime. *)

UnicodeDecodeError == Raise("UnicodeDecodeError", "utf-16", -1)

\* The 16-bit code unit at byte offset o of b, in the given byte order.
UnitAt(b, o, big) ==
    IF big THEN 256 * ByteAt(b, o) + ByteAt(b, o + 1)
    ELSE ByteAt(b, o) + 256 * ByteAt(b, o + 1)

IsHighSurrogate(u) == 55296 <= u /\ u <= 56319

IsLowSurrogate(u) == 56320 <= u /\ u <= 57343

\* The code points of b from byte offset o on; <<-1>> is appended where the
\* decoder raises (a truncated unit, an unpaired surrogate).
RECURSIVE Utf16Units(_, _, _)
Utf16Units(b, o, big) ==
    IF o >= b.len THEN <<>>
    ELSE IF b.len - o = 1 THEN <<-1>>
    ELSE LET u == UnitAt(b, o, big)
         IN  IF IsLowSurrogate(u) THEN <<-1>>
             ELSE IF IsHighSurrogate(u)
             THEN IF b.len - o < 4 THEN <<-1>>
                  ELSE LET v == UnitAt(b, o + 2, big)
                       IN  IF ~IsLowSurrogate(v) THEN <<-1>>
                           ELSE <<65536 + 1024 * (u - 55296) + (v - 56320)>>
                                \o Utf16Units(b, o + 4, big)
             ELSE <<u>> \o Utf16Units(b, o + 2, big)

\* bytes.decode("utf-16") on a little-endian host: a leading byte-order mark
\* FF FE or FE FF is consumed and sets the byte order, little-endian without
\* one.  Gives [err, val].
decode_utf16(b) ==
    LET bomLE == b.len >= 2 /\ ByteAt(b, 0) = 255 /\ ByteAt(b, 1) = 254
        bomBE == b.len >= 2 /\ ByteAt(b, 0) = 254 /\ ByteAt(b, 1) = 255
        cps == Utf16Units(b, IF bomLE \/ bomBE THEN 2 ELSE 0, bomBE)
    IN  IF \E i \in 1..Len(cps) : cps[i] = -1
        THEN [err |-> UnicodeDecodeError, val |-> <<>>]
        ELSE [err |-> NoErr, val |-> cps]

\* s.endswith("\0\0")
EndsWithTwoNul(s) == Len(s) >= 2 /\ s[Len(s)] = 0 /\ s[Len(s) - 1] = 0

\* s.split("\0")
RECURSIVE split_nul(_)
split_nul(s) ==
    IF \A i \in 1..Len(s) : s[i] # 0 THEN <<s>>
    ELSE LET i == CHOOSE j \in 1..Len(s) :
                      s[j] = 0 /\ \A k \in 1..(j - 1) : s[k] # 0
         IN  <<SubSeq(s, 1, i - 1)>> \o split_nul(SubSeq(s, i + 1, Len(s)))

\* b''.join(x.to_bytes(2, 'little') for x in units)
UnitsToBytes(units) ==
    [len |-> 2 * Len(units),
     at  |-> [o \in {q \in 0..(2 * Len(units) - 1) :
                        IF q % 2 = 0 THEN units[q \div 2 + 1] % 256 # 0
                        ELSE units[q \div 2 + 1] \div 256 # 0}
              |-> IF o % 2 = 0 THEN units[o \div 2 + 1] % 256
                  ELSE units[o \div 2 + 1] \div 256]]

-----------------------------------------------------------------------------
(* parse_hivefile, lines 211-247: the payload of an ET_VALUE entry.         *)
(* A decoded value is [t, v]: its Python type and the value.                *)

PyInt(v) == [t |-> "int", v |-> v]
PyBytes(v) == [t |-> "bytes", v |-> v]
PyStr(v) == [t |-> "str", v |-> v]
PyList(v) == [t |-> "list", v |-> v]
PyNone == [t |-> "None", v |-> 0]

\* Lines 229-234: the code units of raw_value up to the first 0 unit or the
\* end; <<-1>> is appended where read_u16le raises (one byte left over).
RECURSIVE WideChars(_)
WideChars(vvp) ==
    IF remaining_len(vvp) = 0 THEN <<>>
    ELSE LET r == read_u16le(vvp)
         IN  IF r.err # NoErr THEN <<-1>>
             ELSE IF r.val = 0 THEN <<>>
             ELSE <<r.val>> \o WideChars(r.u)

\* Lines 227-236
interpret_string(raw_value) ==
    LET wide_char_list == WideChars(Unpacker(raw_value))
    IN  IF \E i \in 1..Len(wide_char_list) : wide_char_list[i] = -1
        THEN [err |-> IndexError, val |-> PyNone]
        ELSE LET d == decode_utf16(UnitsToBytes(wide_char_list))
             IN  IF d.err # NoErr THEN [err |-> d.err, val |-> PyNone]
                 ELSE [err |-> NoErr, val |-> PyStr(d.val)]

\* interpret_stringlist cutting one NUL, not two, off the end of the text
interpret_stringlist_cut1(raw_value) ==
    LET d == decode_utf16(raw_value)
    IN  IF d.err # NoErr THEN [err |-> d.err, val |-> PyNone]
        ELSE IF ~EndsWithTwoNul(d.val)
        THEN [err |-> Raise("ValueError", "", -1), val |-> PyNone]
        ELSE [err |-> NoErr,
              val |-> PyList(split_nul(SubSeq(d.val, 1, Len(d.val) - 1)))]

\* Lines 239-243
interpret_stringlist(raw_value) ==
    LET d == decode_utf16(raw_value)
    IN  IF d.err # NoErr THEN [err |-> d.err, val |-> PyNone]
        ELSE IF ~EndsWithTwoNul(d.val)
        THEN [err |-> Raise("ValueError", "", -1), val |-> PyNone]
        ELSE [err |-> NoErr,
              val |-> PyList(split_nul(SubSeq(d.val, 1, Len(d.val) - 2)))]

\* Lines 238 and 249: raise NotImplementedError()
not_implemented == Raise("NotImplementedError", "", -1)

\* unknown_value_type raising as the MUI branch does, without arguments
unknown_value_type_bare(value_type) == not_implemented

\* Line 245: the value type no branch knows
unknown_value_type(value_type) ==
    Raise("NotImplementedError", "unknown registry entry type", value_type)

\* Lines 223-245; gives [err, val]
interpret_value(value_type, raw_value) ==
    IF value_type = VALUE_TYPE_DWORD
    THEN [err |-> NoErr, val |-> PyInt(int_from_bytes_little(raw_value))]
    ELSE IF value_type \in {VALUE_TYPE_BINARY, 0}
    THEN [err |-> NoErr, val |-> PyBytes(raw_value)]
    ELSE IF value_type = VALUE_TYPE_STRING
    THEN interpret_string(raw_value)
    ELSE IF value_type = VALUE_TYPE_MUI
    THEN [err |-> not_implemented, val |-> PyNone]
    ELSE IF value_type = VALUE_TYPE_STRINGLIST
    THEN interpret_stringlist(raw_value)
    ELSE [err |-> unknown_value_type(value_type), val |-> PyNone]

\* The entry_data of an entry, as one record for the three kinds the code
\* stores: root_ids is the list of an ET_ROOTS entry; name, next_sibling,
\* first_child, first_value and flags are the items of an ET_KEY entry;
\* name, value and next those of an ET_VALUE entry.  An item a kind does
\* not have keeps the value it has here.
NoData == [root_ids |-> <<>>, name |-> <<>>, next_sibling |-> 0,
           first_child |-> 0, first_value |-> 0, flags |-> 0,
           value |-> PyNone, next |-> 0]

\* Lines 212-247: vp is the Unpacker over the entry's payload; gives
\* [err, val] with val the entry_data {"name", "value", "next"}.
decode_ET_VALUE(vp) ==
    LET r1 == read_u32le(vp)
        r2 == read_u16le(r1.u)
        r3 == read_u16le(r2.u)
        r4 == read_u16le(r3.u)
        value_next == r1.val
        value_type == r2.val
        value_value_len == r3.val
        value_name_len == r4.val % 256
        r5 == read_n(r4.u, value_name_len * 2)
        nm == decode_utf16(r5.val)
        r6 == read_n(r5.u, value_value_len)
        iv == interpret_value(value_type, r6.val)
        fail(e) == [err |-> e, val |-> NoData]
    IN  IF r1.err # NoErr THEN fail(r1.err)
        ELSE IF r2.err # NoErr THEN fail(r2.err)
        ELSE IF r3.err # NoErr THEN fail(r3.err)
        ELSE IF r4.err # NoErr THEN fail(r4.err)
        ELSE IF r5.err # NoErr THEN fail(r5.err)
        ELSE IF nm.err # NoErr THEN fail(nm.err)
        ELSE IF r6.err # NoErr THEN fail(r6.err)
        ELSE IF iv.err # NoErr THEN fail(iv.err)
        ELSE [err |-> NoErr,
              val |-> [NoData EXCEPT !.name = nm.val, !.value = iv.val,
                                     !.next = value_next]]

-----------------------------------------------------------------------------
(* parse_hivefile, lines 131-253: from the bytes to entry_dict.             *)

\* int.from_bytes(b'EKIM', 'little')
EKIM == int_from_bytes_little(BytesOf(<<69, 75, 73, 77>>))

\* Lines 134-147: the byte counts of the header fields, in reading order;
\* the third is magic.
HeaderFieldSizes == <<4, 4, 4, 16, 4, 4, 4, 16, 172, 4, 4, 4, 4, 24>>

\* Line 153: p.seek(0x1000)
SectionDirectoryOffset == 4096

\* Lines 164 and 178: 0x5000
EntryBase == 20480

\* Line 166: 0x20001004
SectionMagic == 536875012

\* Line 170: range(0x400)
SectionEntryCount == 1024

\* 2^28: the low 28 bits of a word are w % Two28 (lines 173 and 182)
Two28 == 268435456

\* One read_n per field size, in order, after the fields already read;
\* gives [err, u, val] with val the fields read.
RECURSIVE read_fields(_, _, _)
read_fields(u, sizes, fields) ==
    IF sizes = <<>> THEN Result(NoErr, u, fields)
    ELSE LET r == read_n(u, Head(sizes))
         IN  IF r.err # NoErr THEN Result(r.err, r.u, <<>>)
             ELSE read_fields(r.u, Tail(sizes), Append(fields, r.val))

\* Lines 134-147 without the check of lines 150-151
read_header_unchecked(u) ==
    LET r == read_fields(u, HeaderFieldSizes, <<>>)
    IN  IF r.err # NoErr THEN Result(r.err, r.u, 0)
        ELSE Result(NoErr, r.u, int_from_bytes_little(r.val[3]))

\* Lines 134-151; gives [err, u, val] with val the magic read
read_header(u) ==
    LET r == read_fields(u, HeaderFieldSizes, <<>>)
        magic == int_from_bytes_little(r.val[3])
    IN  IF r.err # NoErr THEN Result(r.err, r.u, 0)
        ELSE IF magic # EKIM
        THEN Result(Raise("ValueError", "bad magic", magic), r.u, magic)
        ELSE Result(NoErr, r.u, magic)

\* Lines 156-160: the words up to the first 0 are appended to section_list
RECURSIVE read_until_null(_, _)
read_until_null(u, list) ==
    LET r == read_u32le(u)
    IN  IF r.err # NoErr THEN Result(r.err, r.u, <<>>)
        ELSE IF r.val = 0 THEN Result(NoErr, r.u, list)
        ELSE read_until_null(r.u, Append(list, r.val))

\* Lines 153-160 with the first word read like every other
read_section_list_stop_first(u) ==
    LET s == seek(u, SectionDirectoryOffset)
    IN  IF s.err # NoErr THEN Result(s.err, s.u, <<>>)
        ELSE read_until_null(s.u, <<>>)

\* Lines 153-160; gives [err, u, val] with val the section_list
read_section_list(u) ==
    LET s == seek(u, SectionDirectoryOffset)
        first == read_u32le(s.u)
    IN  IF s.err # NoErr THEN Result(s.err, s.u, <<>>)
        ELSE IF first.err # NoErr THEN Result(first.err, first.u, <<>>)
        ELSE read_until_null(first.u, <<first.val>>)

\* p.seek(0x5000 + offset) for an offset read as a u32: an offset of 2^31 or
\* more (held as a negative integer), or one whose sum with 0x5000 is, lies
\* beyond every buffer.
seek_from_base(u, offset) ==
    IF offset < 0 \/ offset > 2147483647 - EntryBase
    THEN Result(IndexError, u, 0)
    ELSE seek(u, EntryBase + offset)

\* A list of integers, kept as [len, at] like a bytes object: the non-zero
\* items by index, every other index below len holding 0.
ItemAt(l, i) == IF i \in DOMAIN l.at THEN l.at[i] ELSE 0

\* [u.read_u32le() for _ in range(count)]
read_u32le_list(u, count) ==
    IF 4 * count > remaining_len(u)
    THEN Result(IndexError, u, EmptyBytes)
    ELSE LET b == Slice(u.data, u.index, 4 * count)
         IN  Result(NoErr, [u EXCEPT !.index = u.index + 4 * count],
                    [len |-> count,
                     at  |-> [i \in {j \in {o \div 4 : o \in DOMAIN b.at} :
                                       int_from_bytes_little(Slice(b, 4 * j, 4)) # 0}
                              |-> int_from_bytes_little(Slice(b, 4 * i, 4))]])

\* Lines 164-170; gives [err, u, val] with val the section_entry_list.  The
\* "bad magic" error of line 167 carries the file's magic.
read_section(u, section_offset, magic) ==
    LET s == seek_from_base(u, section_offset)
        r1 == read_u32le(s.u)
        r2 == read_u32le(r1.u)
        r3 == read_u32le(r2.u)
        r4 == read_u32le_list(r3.u, SectionEntryCount)
    IN  IF s.err # NoErr THEN Result(s.err, s.u, EmptyBytes)
        ELSE IF r1.err # NoErr THEN Result(r1.err, r1.u, EmptyBytes)
        ELSE IF r1.val # SectionMagic
        THEN Result(Raise("ValueError", "bad magic", magic), r1.u, EmptyBytes)
        ELSE IF r2.err # NoErr THEN Result(r2.err, r2.u, EmptyBytes)
        ELSE IF r3.err # NoErr THEN Result(r3.err, r3.u, EmptyBytes)
        ELSE r4

\* Line 173: entry_header & 0x0ffffffc
entry_offset_of(entry_header) == (entry_header % Two28) - (entry_header % 4)

\* Line 174: entry_header & 0b11
entry_flags_of(entry_header) == entry_header % 4

\* Line 175, negated: the header is decoded
is_live(entry_header, data) ==
    ~(entry_flags_of(entry_header) # 1 \/ entry_offset_of(entry_header) >= data.len)

\* Line 181: entry_rawsize >> 28, of a u32
entry_type_of(w) ==
    IF w >= 0 THEN w \div Two28 ELSE 8 + ((w + 2147483647) + 1) \div Two28

\* Line 182: entry_rawsize & ~0xf0000000
entry_size_of(w) == w % Two28

\* Line 192: k more ids of the payload of an ET_ROOTS entry, after the ids
\* already read
RECURSIVE read_roots(_, _, _)
read_roots(vp, k, ids) ==
    IF k = 0 THEN Result(NoErr, vp, ids)
    ELSE LET r == read_u32le(vp)
         IN  IF r.err # NoErr THEN Result(r.err, r.u, <<>>)
             ELSE read_roots(r.u, k - 1, Append(ids, r.val))

\* [x for x in root_ids if x != 0]
RECURSIVE non_zero(_)
non_zero(ids) ==
    IF ids = <<>> THEN <<>>
    ELSE IF Head(ids) # 0 THEN <<Head(ids)>> \o non_zero(Tail(ids))
    ELSE non_zero(Tail(ids))

\* Line 193: entry_data of an ET_ROOTS entry, from its 8 id slots
roots_entry_data(root_ids) == non_zero(root_ids)

decode_ET_ROOTS(vp) ==
    LET r == read_roots(vp, 8, <<>>)
    IN  IF r.err # NoErr THEN [err |-> r.err, val |-> NoData]
        ELSE [err |-> NoErr,
              val |-> [NoData EXCEPT !.root_ids = roots_entry_data(r.val)]]

\* Lines 195-210: the payload of an ET_KEY entry
decode_ET_KEY(vp) ==
    LET r1 == read_u32le(vp)
        r2 == read_u32le(r1.u)
        r3 == read_u32le(r2.u)
        r4 == read_u8(r3.u)
        r5 == read_u16le(r4.u)
        r6 == read_u8(r5.u)
        r7 == read_n(r6.u, r4.val * 2)
        nm == decode_utf16(r7.val)
        fail(e) == [err |-> e, val |-> NoData]
    IN  IF r1.err # NoErr THEN fail(r1.err)
        ELSE IF r2.err # NoErr THEN fail(r2.err)
        ELSE IF r3.err # NoErr THEN fail(r3.err)
        ELSE IF r4.err # NoErr THEN fail(r4.err)
        ELSE IF r5.err # NoErr THEN fail(r5.err)
        ELSE IF r6.err # NoErr THEN fail(r6.err)
        ELSE IF r7.err # NoErr THEN fail(r7.err)
        ELSE IF nm.err # NoErr THEN fail(nm.err)
        ELSE [err |-> NoErr,
              val |-> [NoData EXCEPT !.name = nm.val, !.next_sibling = r1.val,
                                     !.first_child = r2.val,
                                     !.first_value = r3.val, !.flags = r5.val]]

\* ENTRY_TYPE_NAME_FROM_NUMBER[entry_type], for a known entry_type
EntryTypeName(entry_type) ==
    CASE entry_type = ET_DATABASE -> "ET_DATABASE"
      [] entry_type = ET_RECORD -> "ET_RECORD"
      [] entry_type = ET_RECMORE -> "ET_RECMORE"
      [] entry_type = ET_VOLUME -> "ET_VOLUME"
      [] entry_type = ET_ROOTS -> "ET_ROOTS"
      [] entry_type = ET_KEY -> "ET_KEY"
      [] entry_type = ET_VALUE -> "ET_VALUE"
      [] entry_type = ET_INDEX -> "ET_INDEX"

NoEntry == [type |-> "", data |-> NoData]

\* Lines 178-253, one live header: gives [err, u, id, entry, slots, at] with
\* slots the 8 ids read for an ET_ROOTS entry and at the place that raised
\* ("seek" for line 178).
decode_entry(u, entry_offset) ==
    LET s == seek(u, EntryBase + entry_offset)
        r1 == read_u32le(s.u)
        entry_type == entry_type_of(r1.val)
        entry_size == entry_size_of(r1.val)
        r2 == read_u32le(r1.u)
        r3 == read_u32le(r2.u)
        r4 == read_n(r3.u, entry_size)
        vp == Unpacker(r4.val)
        fail(e, w, at) == [err |-> e, u |-> w, id |-> 0, entry |-> NoEntry,
                           slots |-> <<>>, at |-> at]
        made(d) == IF d.err # NoErr THEN fail(d.err, r4.u, "payload")
                   ELSE [err |-> NoErr, u |-> r4.u, id |-> r3.val,
                         entry |-> [type |-> EntryTypeName(entry_type),
                                    data |-> d.val],
                         slots |-> IF entry_type = ET_ROOTS
                                   THEN read_roots(vp, 8, <<>>).val ELSE <<>>,
                         at |-> ""]
    IN  IF s.err # NoErr THEN fail(s.err, s.u, "seek")
        ELSE IF r1.err # NoErr THEN fail(r1.err, r1.u, "record")
        ELSE IF r2.err # NoErr THEN fail(r2.err, r2.u, "record")
        ELSE IF r3.err # NoErr THEN fail(r3.err, r3.u, "record")
        ELSE IF r4.err # NoErr THEN fail(r4.err, r4.u, "record")
        ELSE IF entry_type \notin EntryTypeNumbers
        THEN fail(Raise("KeyError", "", entry_type), r4.u, "type")
        ELSE IF entry_type = ET_ROOTS THEN made(decode_ET_ROOTS(vp))
        ELSE IF entry_type = ET_KEY THEN made(decode_ET_KEY(vp))
        ELSE IF entry_type = ET_VALUE THEN made(decode_ET_VALUE(vp))
        ELSE fail(not_implemented, r4.u, "type")

-----------------------------------------------------------------------------
(* Values the variables of a part of the program hold while a               *)
(* specification exercises another part.                                    *)

NoLast == [op |-> "new", arg |-> 0, before |-> 0, err |-> NoErr,
           ival |-> 0, bval |-> EmptyBytes]

NoHdr == [header |-> 0, did |-> "none", at |-> ""]

EmptyDict == [k \in {} |-> 0]

ParseIdle ==
    /\ pc = "idle"
    /\ err = NoErr
    /\ section_list = <<>>
    /\ sec_i = 1
    /\ section_entry_list = EmptyBytes
    /\ hdr_i = 0
    /\ hdr_log = NoHdr

FlattenIdle ==
    /\ entry_dict = EmptyDict
    /\ entry_order = <<>>
    /\ root_slots = EmptyDict
    /\ top_i = 1
    /\ flatreg = EmptyDict
    /\ stack = <<>>
    /\ ret = EmptyDict
    /\ max_depth = 0

NoValue == [err |-> NoErr, val |-> NoData]

ValueIdle ==
    /\ vinput = [value_type |-> 0, raw |-> <<>>, made_of |-> <<>>, cut |-> 0,
                 rawdata |-> EmptyBytes]
    /\ vresult = NoValue

parse_vars == <<pc, err, section_list, sec_i, section_entry_list, hdr_i, hdr_log>>

flatten_vars ==
    <<entry_dict, entry_order, root_slots, top_i, flatreg, stack, ret, max_depth>>

value_vars == <<vinput, vresult>>

-----------------------------------------------------------------------------
(* SpecUnpacker: one Unpacker over a short buffer, and any sequence of      *)
(* calls of its methods.  A call that raises leaves the object to the       *)
(* caller, who may go on calling.                                           *)

\* The byte values the short buffers are made of.
ByteVals == {0, 1, 255}

RECURSIVE SeqsUpTo(_, _)
SeqsUpTo(S, n) ==
    IF n = 0 THEN {<<>>}
    ELSE LET shorter == SeqsUpTo(S, n - 1)
         IN  shorter \cup {Append(s, x) : s \in {t \in shorter : Len(t) = n - 1}, x \in S}

InitUnpacker ==
    /\ \E s \in SeqsUpTo(ByteVals, MaxData) : p = Unpacker(BytesOf(s))
    /\ last = NoLast
    /\ ParseIdle
    /\ FlattenIdle
    /\ ValueIdle

Called(op, arg, r) ==
    /\ p' = r.u
    /\ last' = [op |-> op, arg |-> arg, before |-> p.index, err |-> r.err,
                ival |-> IF op = "read_n" THEN 0 ELSE r.val,
                bval |-> IF op = "read_n" THEN r.val ELSE EmptyBytes]
    /\ UNCHANGED <<parse_vars, flatten_vars, value_vars>>

CallSeek == \E new_index \in (-1)..(p.data.len + 2) :
    Called("seek", new_index, seek(p, new_index))

CallReadN == \E n \in 0..(p.data.len + 1) :
    Called("read_n", n, read_n(p, n))

CallReadU8 == Called("read_u8", 1, read_u8(p))

CallReadU16le == Called("read_u16le", 2, read_u16le(p))

CallReadU32le == Called("read_u32le", 4, read_u32le(p))

NextUnpacker ==
    \/ CallSeek
    \/ CallReadN
    \/ CallReadU8
    \/ CallReadU16le
    \/ CallReadU32le

SpecUnpacker == InitUnpacker /\ [][NextUnpacker]_vars

-----------------------------------------------------------------------------
(* Building inputs: the byte layout of the file format, as written by the   *)
(* tool that makes hive files.  Everything here is dense sequences of byte  *)
(* values.                                                                  *)

LE16(v) == <<v % 256, (v \div 256) % 256>>

\* for 0 <= v < 2^31
LE32(v) == <<v % 256, (v \div 256) % 256, (v \div 65536) % 256, v \div 16777216>>

RECURSIVE Concat(_)
Concat(ss) == IF ss = <<>> THEN <<>> ELSE Head(ss) \o Concat(Tail(ss))

\* UTF-16-LE, without a byte-order mark, of code points below 2^16
Utf16LE(cps) == Concat([i \in 1..Len(cps) |-> LE16(cps[i])])

\* The STRINGLIST payload of the list L: every element followed by one NUL,
\* then one further NUL.
StringListUnits(L) == Concat([i \in 1..Len(L) |-> L[i] \o <<0>>]) \o <<0>>

\* The payload of an ET_VALUE entry
ValuePayload(next, value_type, name, raw) ==
    LE32(next) \o LE16(value_type) \o LE16(Len(raw)) \o LE16(Len(name))
    \o Utf16LE(name) \o raw

-----------------------------------------------------------------------------
(* SpecValue: the decoding of one ET_VALUE payload (lines 211-247).         *)

\* Code points of the strings tried: "a", U+FEFF and U+FFFE.
Chars == {97, 65279, 65534}

\* Value type codes no branch of the decoder names.
UnknownTypes == {2, 5, 6, 8, 20, 22, 255}

KnownTypes ==
    {0, VALUE_TYPE_STRING, VALUE_TYPE_BINARY, VALUE_TYPE_DWORD,
     VALUE_TYPE_STRINGLIST, VALUE_TYPE_MUI}

StringLists == SeqsUpTo(SeqsUpTo(Chars, MaxStr), MaxList)

ValueName == <<86, 101, 114>>

\* [value_type, raw, made_of, cut]: the type code, the payload bytes, the
\* string list the payload was made from (<<L>>, or <<>> if from none) and
\* the number of bytes missing at the end of the record.
ValueInputs ==
    {[value_type |-> VALUE_TYPE_STRINGLIST, raw |-> Utf16LE(StringListUnits(L)),
      made_of |-> <<L>>, cut |-> 0] : L \in StringLists}
    \cup
    {[value_type |-> t, raw |-> Utf16LE(us), made_of |-> <<>>, cut |-> 0] :
        t \in {VALUE_TYPE_STRINGLIST, VALUE_TYPE_STRING},
        us \in SeqsUpTo(Chars \cup {0}, MaxUnits)}
    \cup
    {[value_type |-> t, raw |-> r, made_of |-> <<>>, cut |-> c] :
        t \in KnownTypes \cup UnknownTypes,
        r \in {<<>>, <<3, 0, 0, 0>>, <<255, 255, 255, 255>>, <<97, 0, 0>>,
               <<0, 216, 0, 0, 0, 0>> },
        c \in {0, 1}}

InitValue ==
    /\ \E i \in ValueInputs :
         LET full == ValuePayload(0, i.value_type, ValueName, i.raw)
         IN  vinput = [value_type |-> i.value_type, raw |-> i.raw,
                       made_of |-> i.made_of, cut |-> i.cut,
                       rawdata |-> BytesOf(SubSeq(full, 1, Len(full) - i.cut))]
    /\ vresult = NoValue
    /\ pc = "value"
    /\ err = NoErr
    /\ section_list = <<>>
    /\ sec_i = 1
    /\ section_entry_list = EmptyBytes
    /\ hdr_i = 0
    /\ hdr_log = NoHdr
    /\ p = Unpacker(EmptyBytes)
    /\ last = NoLast
    /\ FlattenIdle

DecodeValue ==
    /\ pc = "value"
    /\ vresult' = decode_ET_VALUE(Unpacker(vinput.rawdata))
    /\ pc' = "decoded"
    /\ UNCHANGED <<p, last, err, section_list, sec_i, section_entry_list, hdr_i,
                   hdr_log, flatten_vars, vinput>>

NextValue == DecodeValue

SpecValue == InitValue /\ [][NextValue]_vars

Decoded == pc = "decoded" /\ vinput.cut = 0

(* C6 as amended: decoding an ET_VALUE record whose value_type is none of   *)
(* 0, 1, 3, 4, 7, 21 fails with NotImplementedError, the exception class    *)
(* that value_type 21 (MUI) and the undecoded entry kinds raise too; only   *)
(* its arguments ("unknown registry entry type" and the type code) tell it  *)
(* apart from those, which carry none.                                      *)
C6_UnknownTypeRaisesNotImplemented ==
    /\ (Decoded /\ vinput.value_type \notin {0, 1, 3, 4, 7, 21}) =>
         /\ vresult.err.exc = "NotImplementedError"
         /\ vresult.err.exc = not_implemented.exc
         /\ vresult.err.msg = "unknown registry entry type"
         /\ vresult.err.val = vinput.value_type
         /\ vresult.err # not_implemented
    /\ (Decoded /\ vinput.value_type = 21) => vresult.err = not_implemented

\* An unknown type code was decoded, and the error names it.
C6_Witness ==
    Decoded /\ vinput.value_type = 2 /\ vresult.err.val = 2

(* C6 as claimed: decoding an ET_VALUE record whose value_type is none of   *)
(* 0, 1, 3, 4, 7, 21 fails with an error kind (exception class) of its own, *)
(* which is not the kind raised for MUI and the undecoded entry kinds.      *)
C6_UnknownTypeHasOwnKind ==
    (Decoded /\ vinput.value_type \notin {0, 1, 3, 4, 7, 21}) =>
        /\ vresult.err # NoErr
        /\ vresult.err.exc # not_implemented.exc

BomLead(L) == L # <<>> /\ L[1] # <<>> /\ L[1][1] \in {65279, 65534}

ValueErrorBare == Raise("ValueError", "", -1)

\* L without the first character of its first element
DropLead(L) == <<Tail(L[1])>> \o Tail(L)

\* The UTF-16 unit c with its two bytes swapped
Swap16(c) == (c % 256) * 256 + (c \div 256)

SwapAll(L) == [i \in 1..Len(L) |-> [j \in 1..Len(L[i]) |-> Swap16(L[i][j])]]

-----------------------------------------------------------------------------
(* make_reg_flatmap (lines 77-129) and the top-level loop of                *)
(* parse_hivefile (lines 257-262).  The recursion is a stack of frames      *)
(* [kind, prefix, entry_id, res, i, children, wait, walked]: "call" is a    *)
(* that has not yet looked at its entry; "roots", "value" and "key" are the *)
(* three branches; wait names the call the frame is waiting for ("" if      *)
(* none); walked is the set of entries the loop of the frame has been       *)
(* through (history).                                                       *)

\* set(a.keys()).intersection(b.keys()) is not empty
Intersects(a, b) == DOMAIN a \cap DOMAIN b # {}

\* a.update(b)
Update(a, b) ==
    [k \in DOMAIN a \cup DOMAIN b |-> IF k \in DOMAIN b THEN b[k] ELSE a[k]]

\* prefix + "/" + name
Join(prefix, name) == prefix \o Slash \o name

Frame(kind, prefix, entry_id) ==
    [kind |-> kind, prefix |-> prefix, entry_id |-> entry_id,
     res |-> EmptyDict, i |-> 0, children |-> EmptyDict, wait |-> "",
     walked |-> {}]

Top == stack[Len(stack)]

Below == SubSeq(stack, 1, Len(stack) - 1)

RecursionError == Raise("RecursionError", "maximum recursion depth exceeded", -1)

\* The step of the flattener ends with the call stack st and the last
\* returned value rv, or with the exception e.
Flattened(st, rv, e) ==
    /\ stack' = IF e # NoErr THEN stack ELSE st
    /\ ret' = IF e # NoErr THEN ret ELSE rv
    /\ err' = e
    /\ pc' = IF e # NoErr THEN "error" ELSE pc
    /\ max_depth' = IF e = NoErr /\ Len(st) > max_depth THEN Len(st) ELSE max_depth
    /\ UNCHANGED <<p, last, section_list, sec_i, section_entry_list, hdr_i,
                   hdr_log, entry_dict, entry_order, root_slots, top_i, flatreg,
                   value_vars>>

\* The frame on top goes on as f.
Continue(f) == Flattened(Append(Below, f), ret, NoErr)

\* The frame on top returns rv to its caller.
Return(rv) == Flattened(Below, rv, NoErr)

\* The frame on top, going on as f, calls make_reg_flatmap(prefix, entry_id).
Call(f, prefix, entry_id) ==
    IF Len(stack) >= RecursionLimit
    THEN Flattened(stack, ret, RecursionError)
    ELSE Flattened(Append(Below, f) \o <<Frame("call", prefix, entry_id)>>, ret, NoErr)

Fail(e) == Flattened(stack, ret, e)

\* Lines 78-81, 90, 102, 128: the entry is looked up and its branch taken.
Enter ==
    /\ pc = "flattening" /\ stack # <<>> /\ Top.kind = "call"
    /\ IF Top.entry_id \notin DOMAIN entry_dict THEN Return(EmptyDict)
       ELSE LET entry_type == entry_dict[Top.entry_id].type
            IN  IF entry_type = "ET_ROOTS" THEN Continue([Top EXCEPT !.kind = "roots"])
                ELSE IF entry_type = "ET_VALUE" THEN Continue([Top EXCEPT !.kind = "value"])
                ELSE IF entry_type = "ET_KEY" THEN Continue([Top EXCEPT !.kind = "key"])
                ELSE Fail(not_implemented)

\* Line 84: ROOT_NAME_FROM_INDEX[root_index]; gives [err, val]
root_name_of(root_index) ==
    IF root_index >= Len(ROOT_NAME_FROM_INDEX)
    THEN [err |-> Raise("IndexError", "list index out of range", -1), val |-> <<>>]
    ELSE [err |-> NoErr, val |-> ROOT_NAME_FROM_INDEX[root_index + 1]]

\* Lines 83-85 and 89: the next root id of an ET_ROOTS entry, or the return.
RootsStep ==
    /\ pc = "flattening" /\ stack # <<>> /\ Top.kind = "roots" /\ Top.wait = ""
    /\ LET data == entry_dict[Top.entry_id].data.root_ids
           root_name == root_name_of(Top.i)
       IN  IF Top.i >= Len(data) THEN Return(Top.res)
           ELSE IF root_name.err # NoErr THEN Fail(root_name.err)
           ELSE Call([Top EXCEPT !.wait = "root"],
                     Join(Top.prefix, root_name.val), data[Top.i + 1])

\* Lines 86-88: the mapping x of a root came back.
RootsReturn ==
    /\ pc = "flattening" /\ stack # <<>> /\ Top.kind = "roots" /\ Top.wait = "root"
    /\ IF Intersects(ret, Top.res) THEN Fail(not_implemented)
       ELSE Continue([Top EXCEPT !.res = Update(Top.res, ret), !.i = Top.i + 1,
                                 !.wait = ""])

\* The loop over a list of values staying on the entry it is at
next_value_same(entry_id, entry_data) == entry_id

\* Line 100: entry_id = entry_data["next"]
next_value(entry_id, entry_data) == entry_data.next

\* Lines 92-101: one turn of the loop over a list of values, or the return.
ValueStep ==
    /\ pc = "flattening" /\ stack # <<>> /\ Top.kind = "value"
    /\ IF ~(Top.entry_id # 0 /\ Top.entry_id \in DOMAIN entry_dict)
       THEN Return(Top.res)
       ELSE IF entry_dict[Top.entry_id].type # "ET_VALUE"
       THEN Fail(Raise("ValueError", "", -1))
       ELSE LET entry_data == entry_dict[Top.entry_id].data
                entry_name == entry_data.name
            IN  IF entry_name \in DOMAIN Top.res
                THEN Fail(Raise("ValueError", "", -1))
                ELSE Continue([Top EXCEPT
                        !.res = Update(Top.res,
                                       [k \in {Join(Top.prefix, entry_name)}
                                           |-> entry_data.value]),
                        !.entry_id = next_value(Top.entry_id, entry_data),
                        !.walked = Top.walked \cup {Top.entry_id}])

\* Lines 120-125: the children of a key are merged and the loop goes on to
\* its next sibling.
KeyFinish(f, children) ==
    IF Intersects(children, f.res) THEN Fail(Raise("ValueError", "", -1))
    ELSE Continue([f EXCEPT !.res = Update(f.res, children),
                            !.children = EmptyDict, !.wait = "",
                            !.walked = f.walked \cup {f.entry_id},
                            !.entry_id = entry_dict[f.entry_id].data.next_sibling])

\* Lines 114-115, or 120 on: after the child keys
KeyAfterChild(f, children) ==
    LET entry_data == entry_dict[f.entry_id].data
        path == Join(f.prefix, entry_data.name)
    IN  IF entry_data.first_value # 0
        THEN Call([f EXCEPT !.children = children, !.wait = "value"],
                  path, entry_data.first_value)
        ELSE KeyFinish(f, children)

\* Lines 104-113: one turn of the loop over a list of keys, or the return.
KeyStep ==
    /\ pc = "flattening" /\ stack # <<>> /\ Top.kind = "key" /\ Top.wait = ""
    /\ IF ~(Top.entry_id # 0 /\ Top.entry_id \in DOMAIN entry_dict)
       THEN Return(Top.res)
       ELSE IF entry_dict[Top.entry_id].type # "ET_KEY"
       THEN Fail(Raise("ValueError", "", -1))
       ELSE LET entry_data == entry_dict[Top.entry_id].data
                path == Join(Top.prefix, entry_data.name)
            IN  IF entry_data.first_child # 0
                THEN Call([Top EXCEPT !.wait = "child"], path, entry_data.first_child)
                ELSE KeyAfterChild(Top, EmptyDict)

\* Line 113: the mapping of the child keys came back.
KeyChildReturn ==
    /\ pc = "flattening" /\ stack # <<>> /\ Top.kind = "key" /\ Top.wait = "child"
    /\ KeyAfterChild(Top, ret)

\* Lines 115-118: the mapping of the values came back.
KeyValueReturn ==
    /\ pc = "flattening" /\ stack # <<>> /\ Top.kind = "key" /\ Top.wait = "value"
    /\ IF Intersects(ret, Top.children) THEN Fail(Raise("ValueError", "", -1))
       ELSE KeyFinish(Top, Update(Top.children, ret))


\* Lines 258-260: the next entry of entry_dict; an ET_ROOTS entry is
\* flattened with the empty prefix.  Line 262 once all were seen.
TopLevel ==
    /\ pc = "flatten"
    /\ IF top_i > Len(entry_order)
       THEN /\ pc' = "done"
            /\ UNCHANGED <<top_i, stack, max_depth>>
       ELSE IF entry_dict[entry_order[top_i]].type # "ET_ROOTS"
       THEN /\ top_i' = top_i + 1
            /\ UNCHANGED <<pc, stack, max_depth>>
       ELSE /\ pc' = "flattening"
            /\ stack' = <<Frame("call", <<>>, entry_order[top_i])>>
            /\ max_depth' = IF max_depth < 1 THEN 1 ELSE max_depth
            /\ UNCHANGED top_i
    /\ UNCHANGED <<p, last, err, section_list, sec_i, section_entry_list, hdr_i,
                   hdr_log, entry_dict, entry_order, root_slots, flatreg, ret,
                   value_vars>>

\* Line 260: the mapping of an ET_ROOTS entry came back.
TopLevelReturn ==
    /\ pc = "flattening" /\ stack = <<>>
    /\ flatreg' = Update(flatreg, ret)
    /\ top_i' = top_i + 1
    /\ pc' = "flatten"
    /\ UNCHANGED <<p, last, err, section_list, sec_i, section_entry_list, hdr_i,
                   hdr_log, entry_dict, entry_order, root_slots, stack, ret,
                   max_depth, value_vars>>

NextFlatten ==
    \/ TopLevel
    \/ TopLevelReturn
    \/ Enter
    \/ RootsStep
    \/ RootsReturn
    \/ ValueStep
    \/ KeyStep
    \/ KeyChildReturn
    \/ KeyValueReturn

-----------------------------------------------------------------------------
(* parse_hivefile as steps: the header, the section directory, one section  *)
(* and one entry header of a section at a time; then the flattening.        *)
(* hdr_log tells what the last step did with its entry header (history).    *)

\* Line 136: the magic read from the header of the file
magic_of(data) == int_from_bytes_little(Slice(data, 8, 4))

\* Lines 132-151
ParseHeader ==
    /\ pc = "header"
    /\ LET r == read_header(p)
       IN  /\ p' = r.u
           /\ err' = r.err
           /\ pc' = IF r.err # NoErr THEN "error" ELSE "directory"
    /\ UNCHANGED <<last, section_list, sec_i, section_entry_list, hdr_i, hdr_log,
                   flatten_vars, value_vars>>

\* Lines 153-162
ReadSectionList ==
    /\ pc = "directory"
    /\ LET r == read_section_list(p)
       IN  /\ p' = r.u
           /\ err' = r.err
           /\ section_list' = IF r.err # NoErr THEN section_list ELSE r.val
           /\ pc' = IF r.err # NoErr THEN "error" ELSE "section"
    /\ UNCHANGED <<last, sec_i, section_entry_list, hdr_i, hdr_log, flatten_vars,
                   value_vars>>

\* Lines 163-170: the next section of section_list; line 257 after the last.
OpenSection ==
    /\ pc = "section"
    /\ IF sec_i > Len(section_list)
       THEN /\ pc' = "flatten"
            /\ UNCHANGED <<p, err, section_entry_list, hdr_i>>
       ELSE LET r == read_section(p, section_list[sec_i], magic_of(p.data))
            IN  /\ p' = r.u
                /\ err' = r.err
                /\ pc' = IF r.err # NoErr THEN "error" ELSE "entries"
                /\ section_entry_list' =
                       IF r.err # NoErr THEN section_entry_list ELSE r.val
                /\ hdr_i' = 0
    /\ UNCHANGED <<last, section_list, sec_i, hdr_log, flatten_vars, value_vars>>

\* entry_dict[entry_id] = entry: a new key goes last, a key already there
\* keeps its place.
dict_order(order, d, key) == IF key \in DOMAIN d THEN order ELSE Append(order, key)

\* Lines 172-253: one entry header of section_entry_list.
EntryHeader ==
    /\ pc = "entries"
    /\ LET entry_header == ItemAt(section_entry_list, hdr_i)
           entry_offset == entry_offset_of(entry_header)
           more == hdr_i + 1 < SectionEntryCount
           went_on == /\ hdr_i' = hdr_i + 1
                      /\ pc' = IF more THEN "entries" ELSE "section"
                      /\ sec_i' = IF more THEN sec_i ELSE sec_i + 1
       IN  IF ~is_live(entry_header, p.data)
           THEN /\ went_on
                /\ hdr_log' = [header |-> entry_header, did |-> "skipped", at |-> ""]
                /\ UNCHANGED <<p, err, entry_dict, entry_order, root_slots>>
           ELSE \E d \in {decode_entry(p, entry_offset)} :
                     IF d.err # NoErr
                THEN /\ pc' = "error"
                     /\ err' = d.err
                     /\ p' = d.u
                     /\ hdr_log' = [header |-> entry_header, did |-> "raised", at |-> d.at]
                     /\ UNCHANGED <<hdr_i, sec_i, entry_dict, entry_order, root_slots>>
                ELSE /\ went_on
                     /\ p' = d.u
                     /\ entry_dict' = Update(entry_dict, [k \in {d.id} |-> d.entry])
                     /\ entry_order' = dict_order(entry_order, entry_dict, d.id)
                     /\ root_slots' =
                            [k \in (DOMAIN root_slots \ {d.id})
                                   \cup (IF d.entry.type = "ET_ROOTS" THEN {d.id} ELSE {})
                               |-> IF k = d.id THEN d.slots ELSE root_slots[k]]
                     /\ hdr_log' = [header |-> entry_header, did |-> "decoded", at |-> ""]
                     /\ UNCHANGED err
    /\ UNCHANGED <<last, section_list, section_entry_list, top_i, flatreg, stack,
                   ret, max_depth, value_vars>>

NextParse ==
    \/ ParseHeader
    \/ ReadSectionList
    \/ OpenSection
    \/ EntryHeader
    \/ NextFlatten

-----------------------------------------------------------------------------
(* SpecFlatten and SpecTerm: the flattening of an entry table, from the     *)
(* state parse_hivefile is in at line 257.  The tables are what lines       *)
(* 191-253 store: an ET_ROOTS entry holds the non-zero ids of its 8 slots,  *)
(* an ET_KEY entry its name and three references, an ET_VALUE entry its     *)
(* name, value and next reference.                                          *)

Ids == 1..MaxEntries

\* The entry after id among 2..MaxEntries, going round
Succ(id) == IF id >= MaxEntries THEN (IF MaxEntries >= 2 THEN 2 ELSE 1) ELSE id + 1

RootsEntry(slots) ==
    [type |-> "ET_ROOTS",
     data |-> [NoData EXCEPT !.root_ids = roots_entry_data(slots)]]

KeyEntry(name, next_sibling, first_child, first_value) ==
    [type |-> "ET_KEY",
     data |-> [NoData EXCEPT !.name = name, !.next_sibling = next_sibling,
                             !.first_child = first_child,
                             !.first_value = first_value]]

ValueEntry(name, value, next) ==
    [type |-> "ET_VALUE",
     data |-> [NoData EXCEPT !.name = name, !.value = PyInt(value),
                             !.next = next]]

Absent == [type |-> "absent", data |-> NoData]

\* 8 id slots holding k in slot a and m in slot b (slots counted from 1)
Slots(a, k, b, m) ==
    [i \in 1..8 |-> IF i = a THEN k ELSE IF i = b THEN m ELSE 0]

\* 8 id slots of which the first five hold k
FiveSlots(k) == [i \in 1..8 |-> IF i <= 5 THEN k ELSE 0]

\* The table of the entries chosen for the ids, without the absent ones
TableOf(choice) ==
    [id \in {i \in DOMAIN choice : choice[i].e.type # "absent"} |-> choice[id].e]

SlotsOf(choice) ==
    [id \in {i \in DOMAIN choice : choice[i].e.type = "ET_ROOTS"} |-> choice[id].slots]

RECURSIVE Ascending(_, _)
Ascending(S, from) ==
    IF \A x \in S : x < from THEN <<>>
    ELSE IF from \in S THEN <<from>> \o Ascending(S, from + 1)
    ELSE Ascending(S, from + 1)

Choose(e) == [e |-> e, slots |-> <<>>]

ChooseRoots(slots) == [e |-> RootsEntry(slots), slots |-> slots]

NameA == <<97>>
NameB == <<98>>
NameK == <<107>>

\* SpecFlatten: entry 1 is an ET_ROOTS entry.
RichRoots ==
    {ChooseRoots(Slots(a, k, a, k)) : a \in 1..4, k \in Ids}
    \cup {ChooseRoots(Slots(1, k, 2, m)) : k \in Ids, m \in Ids}
    \cup {ChooseRoots(FiveSlots(k)) : k \in Ids}
    \cup {ChooseRoots(Slots(1, 0, 1, 0))}

\* SpecFlatten: what an entry other than entry 1 may be.
FlattenChoices(id) ==
    {Choose(Absent)}
    \cup {ChooseRoots(Slots(1, k, 1, k)) : k \in Ids}
    \cup {Choose(ValueEntry(n, id, next)) : n \in {NameA, NameB}, next \in {0} \cup Ids}
    \cup {Choose(KeyEntry(NameK, ns, fc, fv)) :
             ns \in {0, Succ(id)}, fc \in {0, id, Succ(id)}, fv \in {0, Succ(id)}}

FlattenStart(choice) ==
    /\ entry_dict = TableOf(choice)
    /\ entry_order = Ascending(DOMAIN TableOf(choice), 1)
    /\ root_slots = SlotsOf(choice)
    /\ top_i = 1
    /\ flatreg = EmptyDict
    /\ stack = <<>>
    /\ ret = EmptyDict
    /\ max_depth = 0
    /\ pc = "flatten"
    /\ err = NoErr
    /\ section_list = <<>>
    /\ sec_i = 1
    /\ section_entry_list = EmptyBytes
    /\ hdr_i = 0
    /\ hdr_log = NoHdr
    /\ p = Unpacker(EmptyBytes)
    /\ last = NoLast
    /\ ValueIdle

InitFlatten ==
    \E first \in RichRoots :
    \E rest \in [2..MaxEntries -> UNION {FlattenChoices(id) : id \in 2..MaxEntries}] :
        /\ \A id \in 2..MaxEntries : rest[id] \in FlattenChoices(id)
        /\ FlattenStart([id \in Ids |-> IF id = 1 THEN first ELSE rest[id]])

SpecFlatten == InitFlatten /\ [][NextFlatten]_vars

(* C1: when the walk of one ET_VALUE 'next' list meets two value nodes with *)
(* the same name, flattening fails with ValueError (TreeInconsistency): no  *)
(* walk ever gets through two different entries of the same name, so no     *)
(* mapping is returned in which the later value replaced the earlier.       *)
C1_DuplicateValueNameFails ==
    \A k \in 1..Len(stack) :
        stack[k].kind = "value" =>
            \A a \in stack[k].walked : \A b \in stack[k].walked :
                a # b => entry_dict[a].data.name # entry_dict[b].data.name

(* C2: in the top-level pass, when the mapping of an ET_ROOTS entry shares  *)
(* a path with the registry gathered from the ET_ROOTS entries before it,   *)
(* the decode fails; the registry is never updated over a shared path.      *)
C2_SharedPathAcrossRootsFails ==
    [][(pc = "flattening" /\ stack = <<>> /\ Intersects(flatreg, ret))
          => pc' = "error"]_vars

(* C3: for every ET_ROOTS payload of 8 id slots, the non-zero id stored in  *)
(* slot i (i = 0..3) is flattened under the root name at index i of         *)
(* [HKCR, HKCU, HKLM, HKU], whichever other slots are zero: when the decode *)
(* is done and the id is a value entry, its path under that root name is in *)
(* the registry.                                                            *)
C3_SlotIndexNamesTheRoot ==
    pc = "done" =>
        \A id \in DOMAIN root_slots : \A i \in 1..4 :
            LET k == root_slots[id][i]
            IN  (k # 0 /\ k \in DOMAIN entry_dict /\ entry_dict[k].type = "ET_VALUE")
                => Join(Join(<<>>, ROOT_NAME_FROM_INDEX[i]), entry_dict[k].data.name)
                       \in DOMAIN flatreg

-----------------------------------------------------------------------------
(* SpecTerm: the flattening of tables chosen for their references, with the *)
(* program always taking its next step.                                     *)

\* What an entry other than entry 1 may be: a value, or a key, whose
\* references are none, the entry itself or the entry after it.
TermChoices(id) ==
    {Choose(Absent)}
    \cup {Choose(ValueEntry(NameA, id, next)) : next \in {0, id, Succ(id)}}
    \cup {Choose(KeyEntry(NameK, t[1], t[2], t[3])) :
             t \in {<<0, 0, 0>>, <<Succ(id), 0, 0>>, <<0, Succ(id), 0>>,
                    <<0, 0, Succ(id)>>, <<0, Succ(id), Succ(id)>>,
                    <<id, 0, 0>>, <<0, id, 0>>, <<Succ(id), 0, Succ(id)>>}}

InitTerm ==
    \E first \in {ChooseRoots(Slots(1, k, 1, k)) : k \in Ids} :
    \E rest \in [2..MaxEntries -> UNION {TermChoices(id) : id \in 2..MaxEntries}] :
        /\ \A id \in 2..MaxEntries : rest[id] \in TermChoices(id)
        /\ FlattenStart([id \in Ids |-> IF id = 1 THEN first ELSE rest[id]])

SpecTerm == InitTerm /\ [][NextFlatten]_vars /\ WF_vars(NextFlatten)

\* The entries of the table an entry refers to: its root ids, or its next,
\* or its next_sibling, first_child and first_value.
Refs(table, id) ==
    LET d == table[id].data
        all == IF table[id].type = "ET_ROOTS"
               THEN {d.root_ids[i] : i \in 1..Len(d.root_ids)}
               ELSE IF table[id].type = "ET_VALUE" THEN {d.next}
               ELSE {d.next_sibling, d.first_child, d.first_value}
    IN  (all \ {0}) \cap DOMAIN table

RECURSIVE ReachedFrom(_, _, _)
ReachedFrom(table, S, n) ==
    IF n = 0 THEN S
    ELSE ReachedFrom(table, S \cup UNION {Refs(table, x) : x \in S}, n - 1)

\* No entry is reached from itself along the references.
Acyclic(table) ==
    \A id \in DOMAIN table :
        id \notin ReachedFrom(table, Refs(table, id), Cardinality(DOMAIN table))

SetMax(S) == IF S = {} THEN 0 ELSE CHOOSE x \in S : \A y \in S : y <= x

\* The keys of the list that starts at id, along next_sibling
RECURSIVE Siblings(_, _)
Siblings(table, id) ==
    IF id = 0 \/ id \notin DOMAIN table \/ table[id].type # "ET_KEY" THEN {}
    ELSE {id} \cup Siblings(table, table[id].data.next_sibling)

\* The nesting depth below a reference, in an acyclic table: a value list
\* and a missing entry count 1; a list of keys 1 more than the deepest
\* first_child or first_value of its keys; an ET_ROOTS entry 1 more than
\* its deepest root.  A reference of 0 is not followed.
RECURSIVE NestingDepth(_, _)
NestingDepth(table, id) ==
    IF id \notin DOMAIN table THEN 1
    ELSE IF table[id].type = "ET_ROOTS"
    THEN 1 + SetMax({NestingDepth(table, table[id].data.root_ids[i]) :
                        i \in 1..Len(table[id].data.root_ids)})
    ELSE IF table[id].type = "ET_VALUE" THEN 1
    ELSE 1 + SetMax({NestingDepth(table, r) :
                        r \in UNION {{table[k].data.first_child,
                                      table[k].data.first_value} \ {0} :
                                     k \in Siblings(table, id)}})

Terminated == pc \in {"done", "error"}

(* C9: for every entry table whose references (next, next_sibling,          *)
(* first_child, first_value and the root ids) contain no cycle, the         *)
(* flattening started at the ET_ROOTS entries terminates, returning a       *)
(* mapping or raising an error, and the calls of make_reg_flatmap never     *)
(* nest deeper than the nesting depth of the keys below the entry; so a     *)
(* run that does not terminate has a cycle in its references.               *)
C9_AcyclicTerminates ==
    /\ Acyclic(entry_dict) => <>Terminated
    /\ [](Acyclic(entry_dict) =>
            Len(stack) <= SetMax({NestingDepth(entry_dict, id) : id \in DOMAIN entry_dict}))

\* An acyclic table was flattened to its end through three nested calls
\* and gave a registry with a path in it.
C9_Witness ==
    /\ Acyclic(entry_dict) /\ pc = "done"
    /\ max_depth >= 3 /\ flatreg # EmptyDict

-----------------------------------------------------------------------------
(* SpecParse: parse_hivefile on files made for its stages: files that end   *)
(* in or after the header, with a good or a bad magic; files that end in    *)
(* the section directory; files of one section with one entry header; and   *)
(* files that hold a tree of entries.                                       *)

\* A piece of a file: the bytes b from offset o on
Piece(o, b) == [o |-> o, b |-> b]

\* The file of len bytes holding the pieces, 0 elsewhere; a piece is cut at
\* the end of the file, and of two pieces over one offset the later counts.
FileOf(len, pieces) ==
    LET over(k) == {i \in 1..Len(pieces) :
                       pieces[i].o <= k /\ k < pieces[i].o + Len(pieces[i].b)}
        byte(k) == LET i == SetMax(over(k)) IN pieces[i].b[k - pieces[i].o + 1]
        covered == UNION {pieces[i].o .. (pieces[i].o + Len(pieces[i].b) - 1) :
                             i \in 1..Len(pieces)}
    IN  [len |-> len,
         at  |-> [k \in {j \in covered : j < len /\ byte(j) # 0} |-> byte(k)]]

MagicBytes == <<69, 75, 73, 77>>

\* The header's magic is at offset 8 (after two u32 fields, lines 134-136).
MagicPiece(magic) == Piece(8, magic)

\* An entry record (lines 180-186): entry_rawsize with the type in its top
\* 4 bits, a zero word, entry_id, then the payload.
RecordBytes(entry_type, entry_id, payload) ==
    <<Len(payload) % 256, (Len(payload) \div 256) % 256, 0, entry_type * 16>>
    \o LE32(0) \o LE32(entry_id) \o payload

RootsPayload(slots) == Concat([i \in 1..Len(slots) |-> LE32(slots[i])])

KeyPayload(next_sibling, first_child, first_value, name) ==
    LE32(next_sibling) \o LE32(first_child) \o LE32(first_value)
    \o <<Len(name)>> \o LE16(0) \o <<0>> \o Utf16LE(name)

\* The header lengths of interest: around the magic field (8-12), around
\* the end of the header fields (268), around 0x400 and around 0x1000.
HeaderLengths == {0, 3, 4, 11, 12, 267, 268, 269, 1023, 1024, 4095, 4096, 4099, 4100}

HeaderFiles ==
    {FileOf(len, <<MagicPiece(m)>>) :
        len \in HeaderLengths, m \in {MagicBytes, <<0, 0, 0, 0>>, <<69, 75, 73, 78>>}}

\* Section directories: up to 3 words, the file ending with them or 2 or 8
\* bytes later.
DirWords == SeqsUpTo({0, 5, 7}, 3)

DirFiles ==
    {FileOf(SectionDirectoryOffset + 4 * Len(ws) + tail,
            <<MagicPiece(MagicBytes),
              Piece(SectionDirectoryOffset, Concat([i \in 1..Len(ws) |-> LE32(ws[i])]))>>) :
        ws \in DirWords, tail \in {0, 2, 8}}

\* Files of one section at 0x5000 + 0: the directory holds 0 and 0, the
\* section its magic and 0x400 entry headers from 0x500c on.
SectionHeadersAt == EntryBase + 12

SectionPieces(section_offset) ==
    <<Piece(EntryBase + section_offset, LE32(SectionMagic))>>

HeaderPiece(section_offset, slot, entry_header) ==
    Piece(SectionHeadersAt + section_offset + 4 * slot, LE32(entry_header))

RecordPiece(entry_offset, record) == Piece(EntryBase + entry_offset, record)

\* Where the records of the files are: after the entry headers, 64 apart
RecordOffset(i) == 4112 + 64 * i

EntryFileLen == EntryBase + RecordOffset(0) + 240

\* One entry header, in the first or last slot of the section, with any
\* flags and an offset: of a record, the end of the file less 0x5000, a
\* little more, just before the end of the file, the end, a little more,
\* the largest there is.
EntryOffsets ==
    {RecordOffset(0), EntryFileLen - EntryBase, EntryFileLen - EntryBase + 4,
     EntryFileLen - 4, EntryFileLen, EntryFileLen + 4, Two28 - 4}

OneValue == RecordBytes(ET_VALUE, 3, ValuePayload(0, VALUE_TYPE_DWORD, NameA, LE32(3)))

EntryFiles ==
    {FileOf(EntryFileLen,
            <<MagicPiece(MagicBytes)>> \o SectionPieces(0)
            \o <<HeaderPiece(0, slot, entry_offset + flags),
                 RecordPiece(RecordOffset(0), OneValue)>>) :
        slot \in {0, SectionEntryCount - 1}, flags \in 0..3, entry_offset \in EntryOffsets}

\* One live entry header and a record of each type tag, or a record cut
\* short by the end of the file.
RecordFiles ==
    {FileOf(EntryFileLen,
            <<MagicPiece(MagicBytes)>> \o SectionPieces(0)
            \o <<HeaderPiece(0, 0, RecordOffset(0) + 1),
                 RecordPiece(RecordOffset(0), RecordBytes(t, 1, RootsPayload(Slots(1, 2, 1, 2))))>>) :
        t \in 0..15}
    \cup {FileOf(EntryBase + RecordOffset(0) + cut,
            <<MagicPiece(MagicBytes)>> \o SectionPieces(0)
            \o <<HeaderPiece(0, 0, RecordOffset(0) + 1),
                 RecordPiece(RecordOffset(0), OneValue)>>) :
        cut \in {2, 6, 10, 14, Len(OneValue) - 1}}

\* A tree: an ET_ROOTS entry with the key 2 in slot a; key 2 ("k") with the
\* child key 4 ("c") and the value 3 ("a"); key 4 with the value 3 too.
TreePieces(section_offset, a) ==
    <<HeaderPiece(section_offset, 0, RecordOffset(0) + 1),
      HeaderPiece(section_offset, 1, RecordOffset(1) + 1),
      HeaderPiece(section_offset, 5, RecordOffset(2) + 1),
      HeaderPiece(section_offset, 7, RecordOffset(3) + 1),
      RecordPiece(RecordOffset(0), RecordBytes(ET_ROOTS, 1, RootsPayload(Slots(a, 2, a, 2)))),
      RecordPiece(RecordOffset(1), RecordBytes(ET_KEY, 2, KeyPayload(0, 4, 3, NameK))),
      RecordPiece(RecordOffset(2), OneValue),
      RecordPiece(RecordOffset(3), RecordBytes(ET_KEY, 4, KeyPayload(0, 0, 3, <<99>>)))>>

TreeFiles ==
    {FileOf(EntryFileLen,
            <<MagicPiece(MagicBytes)>> \o SectionPieces(0) \o TreePieces(0, a)) :
        a \in 1..4}

\* Two sections, at 0x5000 + 0 and 0x5000 + 0x2000; the second with or
\* without its magic, and with the tree's entries stored once more.
SecondSection == 2 * SectionDirectoryOffset

TwoSectionFiles ==
    {FileOf(EntryFileLen + SecondSection,
            <<MagicPiece(MagicBytes),
              Piece(SectionDirectoryOffset, LE32(0) \o LE32(SecondSection))>>
            \o SectionPieces(0) \o TreePieces(0, 1)
            \o (IF good THEN SectionPieces(SecondSection) ELSE <<>>)
            \o (IF again THEN TreePieces(SecondSection, 1) ELSE <<>>)) :
        good \in BOOLEAN, again \in BOOLEAN}

ParseFiles == HeaderFiles \cup DirFiles \cup EntryFiles \cup RecordFiles
              \cup TreeFiles \cup TwoSectionFiles

InitParse ==
    /\ p \in {Unpacker(file) : file \in ParseFiles}
    /\ pc = "header"
    /\ err = NoErr
    /\ section_list = <<>>
    /\ sec_i = 1
    /\ section_entry_list = EmptyBytes
    /\ hdr_i = 0
    /\ hdr_log = NoHdr
    /\ FlattenIdle
    /\ last = NoLast
    /\ ValueIdle

SpecParse == InitParse /\ [][NextParse]_vars

\* Line 134: header_size, 0x400 in the files of the format
header_size == 1024

RECURSIVE SumOf(_)
SumOf(sizes) == IF sizes = <<>> THEN 0 ELSE Head(sizes) + SumOf(Tail(sizes))

\* The bytes lines 134-147 read
HeaderBytes == SumOf(HeaderFieldSizes)

BadMagic(data) == Raise("ValueError", "bad magic", magic_of(data))

(* C4: for every buffer shorter than 0x400 bytes, whatever its contents,    *)
(* parse_hivefile fails: with IndexError (OutOfBounds) when the buffer is   *)
(* shorter than the 268 bytes of the header fields or its magic is EKIM,    *)
(* and with ValueError("bad magic") when it holds the header fields and its *)
(* magic is not EKIM.                                                       *)
C4_ShortBufferFails ==
    p.data.len < header_size =>
        /\ pc \in {"header", "directory", "error"}
        /\ pc = "error" =>
              err = IF p.data.len < HeaderBytes \/ magic_of(p.data) = EKIM
                    THEN IndexError ELSE BadMagic(p.data)

\* A buffer of 268 to 0x3ff bytes with another magic failed with ValueError.
C4_Witness ==
    /\ HeaderBytes <= p.data.len /\ p.data.len < header_size
    /\ pc = "error" /\ err = BadMagic(p.data) /\ magic_of(p.data) # EKIM

(* C4 as stated: every buffer shorter than 0x400 bytes fails with           *)
(* IndexError (OutOfBounds) and with no other error.                        *)
C4_ShortBufferOutOfBounds ==
    p.data.len < header_size =>
        /\ pc \in {"header", "directory", "error"}
        /\ pc = "error" => err = IndexError

(* C5: the seek to 0x5000 + entry_offset of a header that is treated as     *)
(* live (flags 0b01, offset below the length of the file) never raises      *)
(* IndexError (OutOfBounds), and a header of other flags is skipped.        *)
C5_LiveHeaderSeekInBounds ==
    hdr_log.did # "none" =>
        /\ entry_flags_of(hdr_log.header) # 1 => hdr_log.did = "skipped"
        /\ ~(hdr_log.did = "raised" /\ hdr_log.at = "seek" /\ err = IndexError)

\* The header fields were read and the magic is EKIM.
HeaderOk == HeaderBytes <= p.data.len /\ magic_of(p.data) = EKIM

\* The directory of the file, as the claim reads it: the words of 4 bytes
\* from 0x1000 that lie whole in the file, counted from 0.
DirectoryLen(data) ==
    IF data.len < SectionDirectoryOffset THEN 0
    ELSE (data.len - SectionDirectoryOffset) \div 4

DirectoryWord(data, i) ==
    int_from_bytes_little(Slice(data, SectionDirectoryOffset + 4 * i, 4))

\* The first word equal to 0 after the first position (DirectoryLen if there
\* is none): it comes first, or right after a word that is not 0.
DirectoryEnd(data) ==
    LET set == {i \in {1} \cup {((o - SectionDirectoryOffset) \div 4) + 1 :
                                   o \in {x \in DOMAIN data.at : x >= SectionDirectoryOffset}} :
                   /\ i < DirectoryLen(data)
                   /\ DirectoryWord(data, i) = 0}
    IN  IF set = {} THEN DirectoryLen(data)
        ELSE CHOOSE i \in set : \A j \in set : i <= j

(* C7: the section list read from offset 0x1000 is the first word always    *)
(* (also when 0), then every next word up to but excluding the first 0      *)
(* after the first position; a directory that reaches the end of the file   *)
(* without such a 0 fails with IndexError (OutOfBounds) and gives no list.  *)
C7_SectionListUpToNull ==
    (HeaderOk /\ pc \notin {"header", "directory"}) =>
        LET end == DirectoryEnd(p.data)
        IN  IF end < DirectoryLen(p.data)
            THEN section_list = [i \in 1..end |-> DirectoryWord(p.data, i - 1)]
            ELSE pc = "error" /\ err = IndexError /\ section_list = <<>>

\* The directory [0, 7, 0] was read as [0, 7].
C7_Witness ==
    /\ pc \notin {"header", "directory"}
    /\ DirectoryLen(p.data) = 3 /\ DirectoryWord(p.data, 0) = 0
    /\ section_list = <<0, 7>>

=============================================================================
